---- MODULE Spec2Model ----
(***************************************************************************)
(* Scenario harness of TriRPC-Lab: scripts/run-all.ts drives the ethers    *)
(* runner and then the viem runner against one node; each runner executes  *)
(* six scenarios through runScenario and returns their results.            *)
(***************************************************************************)
EXTENDS Integers, Sequences, FiniteSets, TLC

\* ------------------------------------------------------------------ bounds

\* Wall-clock milliseconds that may elapse in one run.
MaxClock == 1

\* Failures the environment (transport, node) may inject in one run.
MaxFaults == 1

\* Longest wait, in milliseconds, of a task handed to runScenario on its own.
MaxTaskMs == 2

\* Calls of runAll a caller other than main makes, one after the other.
MaxCalls == 3

\* ----------------------------------------------------------- fixed data

Runners == {"ethers", "viem"}

ScenarioIds ==
  << "chain-info", "account-state", "contract-read",
     "tx-send-native", "tx-write-contract", "tx-query-lifecycle" >>

NumScenarios == Len(ScenarioIds)

Scenarios == 1..NumScenarios

\* Position of each scenario in the array literal returned by runAll.
ChainInfo == 1
AccountState == 2
ContractRead == 3
TxSendNative == 4
TxWriteContract == 5
TxQueryLifecycle == 6

\* Chain id the local node reports.
FoundryChainId == 31337

\* ------------------------------------------------------------ JS values

\* A JS object with no own properties: {} .
EmptyObject == [x \in {} |-> 0]

\* obj.key = value on an object whose properties are all optional.
SetField(obj, key, value) ==
  [x \in (DOMAIN obj) \cup {key} |-> IF x = key THEN value ELSE obj[x]]

Has(obj, key) == key \in DOMAIN obj

\* A bigint as returned by viem, and Number(bigint) (exact below 2^53).
BigInt(n) == [bigint |-> n]

ToNumber(b) == b.bigint

Digit(d) ==
  CASE d = 0 -> "0" [] d = 1 -> "1" [] d = 2 -> "2" [] d = 3 -> "3" [] d = 4 -> "4"
    [] d = 5 -> "5" [] d = 6 -> "6" [] d = 7 -> "7" [] d = 8 -> "8" [] d = 9 -> "9"

RECURSIVE NatToString(_)
\* n.toString() of a non-negative integer or bigint value.
NatToString(n) ==
  IF n < 10 THEN Digit(n) ELSE NatToString(n \div 10) \o Digit(n % 10)

\* Values a task can throw: an Error carrying a message, or any other value.
MkError(msg) == [isError |-> TRUE, message |-> msg]

ThrownString(s) == [isError |-> FALSE, type |-> "string", text |-> s]

ThrownNumber(n) == [isError |-> FALSE, type |-> "number", number |-> n]

ThrownNull == [isError |-> FALSE, type |-> "null"]

\* String(value) for the values above that are not Errors.
StringOf(v) ==
  CASE v.type = "string" -> v.text
    [] v.type = "number" -> NatToString(v.number)
    [] v.type = "null" -> "null"

\* How a task settles: fulfilled with an output mapping, or rejected.
Fulfilled(output) == [kind |-> "fulfilled", value |-> output]

Rejected(thrown) == [kind |-> "rejected", value |-> thrown]

\* ---------------------------------------------------------- runScenario

\* Variant: the message is read from whatever was thrown.
ErrorText_MessageOnly(thrown) ==
  IF thrown.isError THEN thrown.message ELSE "undefined"

\* error instanceof Error ? error.message : String(error)
ErrorText(thrown) ==
  IF thrown.isError THEN thrown.message ELSE StringOf(thrown)

\* Variant: the success branch drops what the task returned.
RunScenario_NoOutput(id, startMs, endMs, settled) ==
  IF settled.kind = "fulfilled"
    THEN [id |-> id, success |-> TRUE, durationMs |-> endMs - startMs,
          output |-> EmptyObject]
    ELSE [id |-> id, success |-> FALSE, durationMs |-> endMs - startMs,
          output |-> EmptyObject, error |-> ErrorText(settled.value)]

\* Variant: both branches build the same shape, with an error field.
RunScenario_ErrorFieldAlways(id, startMs, endMs, settled) ==
  IF settled.kind = "fulfilled"
    THEN [id |-> id, success |-> TRUE, durationMs |-> endMs - startMs,
          output |-> settled.value, error |-> ""]
    ELSE [id |-> id, success |-> FALSE, durationMs |-> endMs - startMs,
          output |-> EmptyObject, error |-> ErrorText(settled.value)]

\* The ScenarioResult runScenario returns for a task started at clock
\* reading startMs that settles as `settled` at clock reading endMs.
RunScenario(id, startMs, endMs, settled) ==
  IF settled.kind = "fulfilled"
    THEN [id |-> id, success |-> TRUE, durationMs |-> endMs - startMs,
          output |-> settled.value]
    ELSE [id |-> id, success |-> FALSE, durationMs |-> endMs - startMs,
          output |-> EmptyObject, error |-> ErrorText(settled.value)]

\* ---------------------------------------------------------------- state

VARIABLES
  env,          \* files and environment variables the process starts with
  mainPc,       \* position of main() in scripts/run-all.ts
  context,      \* the ScenarioContext loadContext returned
  exitCode,     \* process exit code, -1 while the process has not exited
  reportWrites, \* number of writes to reports/compare.md
  report,       \* content of reports/compare.md
  logged,       \* what console.error has printed
  harness,      \* a caller that invokes runAll repeatedly: calls made so far,
                \* and per runner the hashes its earlier invocations recorded
  waitBlock,    \* per runner: the block number its client read when it last
                \* began to wait for a receipt (0: it has not waited yet)
  runnerPc,     \* per runner: state of its runAll promise
  taskPc,       \* per runner and scenario: position of the scenario's task
  start,        \* per runner and scenario: runScenario's `start`
  txHashes,     \* per runner: the txHashes object of the runAll call
  broadcast,    \* per runner: `tx` / `hash` local of the two sending tasks
  fetched,      \* per runner: targetHash, tx, receipt, currentBlock of the query task
  results,      \* per runner: results in the order runScenario returned them
  now,          \* Date.now()
  faults,       \* failures injected so far
  blockNumber,  \* node: latest block
  txs,          \* node: transactions by hash (blockNumber 0 while pending)
  count,        \* Counter.count
  settledAs,    \* per runner and scenario: how the task settled
  rpcCount,     \* per runner and scenario: RPC requests the task issued
  queried,      \* per runner: hashes passed to getTransaction(Receipt)
  invoked,      \* per runner and scenario: times the task was invoked
  exec          \* a runScenario call on a task of its own

mainVars == << env, mainPc, context, exitCode, reportWrites, report, logged >>

runVars == << runnerPc, taskPc, start, txHashes, broadcast, fetched, results >>

nodeVars == << blockNumber, txs, count >>

histVars == << settledAs, rpcCount, queried, invoked >>

vars == << env, mainPc, context, exitCode, reportWrites, report, logged, runnerPc, taskPc, start,
           txHashes, broadcast, fetched, results, now, faults, blockNumber, txs,
           count, settledAs, rpcCount, queried, invoked, exec, harness, waitBlock >>

\* What the process can be started with: the deployment record and the
\* contract artifact present or not, each variable unset/empty or set.
Environments ==
  [ deployment : BOOLEAN,
    artifact : BOOLEAN,
    RPC_URL : {"", "http://127.0.0.1:8545"},
    PRIVATE_KEY : {"", "malformed", "valid"},
    TO_ADDRESS : {"", "malformed", "valid"} ]

NoContext == [loaded |-> FALSE]

NotSettled == [kind |-> "pending"]

HarnessIdle == [calls |-> 0, earlier |-> [r \in Runners |-> {}]]

\* reports/compare.md before main writes it.
NoReport == [written |-> FALSE]

ExecIdle == [pc |-> "none"]

InitRun ==
  /\ mainPc = "loadContext"
  /\ context = NoContext
  /\ exitCode = -1
  /\ reportWrites = 0
  /\ report = NoReport
  /\ logged = << >>
  /\ harness = HarnessIdle
  /\ waitBlock = [r \in Runners |-> 0]
  /\ runnerPc = [r \in Runners |-> "idle"]
  /\ taskPc = [r \in Runners |-> [k \in Scenarios |-> "idle"]]
  /\ start = [r \in Runners |-> [k \in Scenarios |-> 0]]
  /\ txHashes = [r \in Runners |-> EmptyObject]
  /\ broadcast = [r \in Runners |-> EmptyObject]
  /\ fetched = [r \in Runners |-> EmptyObject]
  /\ results = [r \in Runners |-> << >>]
  /\ now = 0
  /\ faults = 0
  /\ blockNumber = 1
  /\ txs = EmptyObject
  /\ count = 0
  /\ settledAs = [r \in Runners |-> [k \in Scenarios |-> NotSettled]]
  /\ rpcCount = [r \in Runners |-> [k \in Scenarios |-> 0]]
  /\ queried = [r \in Runners |-> {}]
  /\ invoked = [r \in Runners |-> [k \in Scenarios |-> 0]]

Init ==
  /\ env \in Environments
  /\ InitRun
  /\ exec = ExecIdle

\* ------------------------------------------------------------------ node

Hashes == DOMAIN txs

Included(h) == h \in Hashes /\ txs[h].blockNumber > 0

Pending == {h \in Hashes : txs[h].blockNumber = 0}

\* Hash of the transaction the account signs next (one per nonce).
NextHash == Cardinality(Hashes) + 1

\* eth_getTransactionCount of the signing account at the latest block.
Nonce == Cardinality({h \in Hashes : Included(h)})

\* eth_getBalance of the signing account, in units of the transfer value:
\* every included transaction pays gas, a successful transfer its value.
Balance ==
  100 - Cardinality({h \in Hashes : Included(h)})
      - Cardinality({h \in Hashes : Included(h) /\ txs[h].kind = "native"
                                      /\ txs[h].status = 1})

\* eth_sendRawTransaction: the node accepts the transaction into its pool.
Accept(kind) ==
  txs' = SetField(txs, NextHash, [kind |-> kind, blockNumber |-> 0, status |-> 0])

\* Variant: the contract adds two per call.
Increment_ByTwo(c) == c + 2

\* Counter.increment() as executed in a block.
Increment(c) == c + 1

RECURSIVE ApplyIncrements(_, _)
ApplyIncrements(c, n) == IF n = 0 THEN c ELSE ApplyIncrements(Increment(c), n - 1)

\* The node seals a block holding every pending transaction; a transaction
\* executes successfully (status 1) or reverts (status 0).
Mine ==
  /\ Pending # {}
  /\ \E reverted \in SUBSET Pending :
       /\ Cardinality(reverted) <= MaxFaults - faults
       /\ faults' = faults + Cardinality(reverted)
       /\ blockNumber' = blockNumber + 1
       /\ txs' = [h \in Hashes |->
                    IF h \in Pending
                      THEN [txs[h] EXCEPT !.blockNumber = blockNumber + 1,
                                          !.status = IF h \in reverted THEN 0 ELSE 1]
                      ELSE txs[h]]
       /\ count' = ApplyIncrements(count,
                     Cardinality({h \in Pending \ reverted : txs[h].kind = "increment"}))
  /\ UNCHANGED << mainVars, runVars, histVars, now, exec, harness, waitBlock >>

\* ------------------------------------------------------------------ main

\* Variant: only the presence of the variable is asked for, not its value.
RequireEnv_AcceptsEmpty(e, name) == Fulfilled(e[name])

\* requireEnv(name): an unset or empty variable throws.
RequireEnv(e, name) ==
  IF e[name] = ""
    THEN Rejected(MkError("Missing env var: " \o name))
    ELSE Fulfilled(e[name])

\* loadContext(): the deployment record is checked first, then the three
\* variables in the order of the object literal.
LoadContextOf(e) ==
  IF ~e.deployment
    THEN Rejected(MkError("Missing contracts/deployments/local.json."))
  ELSE IF RequireEnv(e, "RPC_URL").kind = "rejected" THEN RequireEnv(e, "RPC_URL")
  ELSE IF RequireEnv(e, "PRIVATE_KEY").kind = "rejected" THEN RequireEnv(e, "PRIVATE_KEY")
  ELSE IF RequireEnv(e, "TO_ADDRESS").kind = "rejected" THEN RequireEnv(e, "TO_ADDRESS")
  ELSE Fulfilled([loaded |-> TRUE,
                  rpcUrl |-> RequireEnv(e, "RPC_URL").value,
                  privateKey |-> RequireEnv(e, "PRIVATE_KEY").value,
                  toAddress |-> RequireEnv(e, "TO_ADDRESS").value,
                  counterAddress |-> "0xCounter"])

\* const context = loadContext();
LoadContext ==
  /\ mainPc = "loadContext"
  /\ IF LoadContextOf(env).kind = "fulfilled"
       THEN /\ context' = LoadContextOf(env).value
            /\ mainPc' = "ethers"
       ELSE /\ context' = context
            /\ mainPc' = "rejected"
  /\ UNCHANGED << env, exitCode, reportWrites, report, logged, runVars, nodeVars, histVars,
                  now, faults, exec, harness, waitBlock >>

\* What runAll does before its first scenario: the signing object is built
\* from ctx.privateKey and the artifact file is read; either can throw.
SetupThrows(r) == context.privateKey = "malformed" \/ ~env.artifact

\* The value runAll rejects with: the signing object is built first.
SetupError(r) ==
  IF context.privateKey = "malformed"
    THEN MkError("invalid private key")
    ELSE MkError("ENOENT: no such file or directory, open 'contracts/artifacts/Counter.json'")

\* Variant: the bookkeeping object lives at module scope, one per runner.
NewTxHashes_ModuleScope(r) == txHashes[r]

\* const txHashes: { native?: string; contract?: string } = {};
NewTxHashes(r) == EmptyObject

\* Variant: main starts both runners at once and awaits them together.
CallRunAll_Concurrent(r) ==
  /\ mainPc \in Runners
  /\ runnerPc[r] = "idle"
  /\ runnerPc' = [runnerPc EXCEPT ![r] = IF SetupThrows(r) THEN "rejected" ELSE "running"]
  /\ txHashes' = [txHashes EXCEPT ![r] = NewTxHashes(r)]
  /\ waitBlock' = [waitBlock EXCEPT ![r] = 0]
  /\ UNCHANGED << mainVars, taskPc, start, broadcast, fetched, results, nodeVars,
                  histVars, now, faults, exec, harness >>

\* await <runner>.runAll(context), up to the first scenario.
CallRunAll(r) ==
  /\ mainPc = r
  /\ runnerPc[r] = "idle"
  /\ runnerPc' = [runnerPc EXCEPT ![r] = IF SetupThrows(r) THEN "rejected" ELSE "running"]
  /\ txHashes' = [txHashes EXCEPT ![r] = NewTxHashes(r)]
  /\ waitBlock' = [waitBlock EXCEPT ![r] = 0]
  /\ UNCHANGED << mainVars, taskPc, start, broadcast, fetched, results, nodeVars,
                  histVars, now, faults, exec, harness >>

\* The array literal is complete once its six awaits have produced a value.
CanReturn(r) == Len(results[r]) = NumScenarios

NextAfter(r) == IF r = "ethers" THEN "viem" ELSE "report"

\* Variant: main writes the file each time a runner has returned.
RunAllReturn_WritesReport(r) ==
  /\ mainPc = r
  /\ runnerPc[r] = "running"
  /\ CanReturn(r)
  /\ runnerPc' = [runnerPc EXCEPT ![r] = "returned"]
  /\ mainPc' = NextAfter(r)
  /\ reportWrites' = reportWrites + 1
  /\ UNCHANGED << env, context, exitCode, report, logged, taskPc, start, txHashes,
                  broadcast, fetched, results, nodeVars, histVars, now, faults, exec,
                  harness, waitBlock >>

\* runAll returns its list and main goes on.
RunAllReturn(r) ==
  /\ mainPc = r
  /\ runnerPc[r] = "running"
  /\ CanReturn(r)
  /\ runnerPc' = [runnerPc EXCEPT ![r] = "returned"]
  /\ mainPc' = NextAfter(r)
  /\ UNCHANGED << env, context, exitCode, reportWrites, report, logged, taskPc, start, txHashes,
                  broadcast, fetched, results, nodeVars, histVars, now, faults, exec, harness, waitBlock >>

\* ---------------------------------------------------------------- report

RECURSIVE SumDurations(_)
\* results.reduce((sum, r) => sum + r.durationMs, 0)
SumDurations(list) ==
  IF list = << >> THEN 0 ELSE list[1].durationMs + SumDurations(Tail(list))

IsSuccess(r) == r.success

\* Variant: only the scenarios that passed count towards the total.
Summarize_PassedOnly(list) ==
  [passed |-> Len(SelectSeq(list, IsSuccess)),
   failed |-> Len(list) - Len(SelectSeq(list, IsSuccess)),
   totalMs |-> SumDurations(SelectSeq(list, IsSuccess))]

\* summarize(results)
Summarize(list) ==
  [passed |-> Len(SelectSeq(list, IsSuccess)),
   failed |-> Len(list) - Len(SelectSeq(list, IsSuccess)),
   totalMs |-> SumDurations(list)]

\* JSON.stringify of an output mapping. Every field a task returns is a
\* number, a string, a boolean or null, so the text lists the fields as
\* they are; the text is kept apart from the mapping it was made from.
JsonStringify(output) == [json |-> output]

\* Variant: a failed row leaves the output column empty.
RenderRow_NoErrorText(r) ==
  << r.id, IF r.success THEN "PASS" ELSE "FAIL", NatToString(r.durationMs),
     IF r.success THEN JsonStringify(r.output) ELSE "" >>

\* One table row of a runner section, as its four cells.
RenderRow(r) ==
  << r.id, IF r.success THEN "PASS" ELSE "FAIL", NatToString(r.durationMs),
     IF r.success THEN JsonStringify(r.output) ELSE r.error >>

\* renderClientSection(name, results): heading, summary lines, table rows.
RenderClientSection(name, list) ==
  [heading |-> "## " \o name,
   passed |-> "- passed: " \o NatToString(Summarize(list).passed),
   failed |-> "- failed: " \o NatToString(Summarize(list).failed),
   total |-> "- total duration: " \o NatToString(Summarize(list).totalMs) \o "ms",
   rows |-> [i \in 1..Len(list) |-> RenderRow(list[i])]]

\* Variant: a scenario without a result counts as slower than any other.
DurationOf_MissingIsSlow(list, id) ==
  IF \E i \in 1..Len(list) : list[i].id = id
    THEN list[CHOOSE i \in 1..Len(list) :
                /\ list[i].id = id
                /\ \A j \in 1..(i - 1) : list[j].id # id].durationMs
    ELSE 9

\* Variant: only a scenario that passed has its duration compared.
DurationOf_FailedIsSlow(list, id) ==
  IF \E i \in 1..Len(list) : list[i].id = id
    THEN LET r == list[CHOOSE i \in 1..Len(list) :
                        /\ list[i].id = id
                        /\ \A j \in 1..(i - 1) : list[j].id # id]
         IN IF r.success THEN r.durationMs ELSE 9
    ELSE 0

\* results.find((r) => r.id === id)?.durationMs ?? 0
DurationOf(list, id) ==
  IF \E i \in 1..Len(list) : list[i].id = id
    THEN list[CHOOSE i \in 1..Len(list) :
                /\ list[i].id = id
                /\ \A j \in 1..(i - 1) : list[j].id # id].durationMs
    ELSE 0

\* Variant: equal durations are credited to the first runner.
Winner_NoTie(eMs, vMs) == IF eMs <= vMs THEN "ethers" ELSE "viem"

\* eMs === vMs ? 'tie' : eMs < vMs ? 'ethers' : 'viem'
Winner(eMs, vMs) == IF eMs = vMs THEN "tie" ELSE IF eMs < vMs THEN "ethers" ELSE "viem"

\* renderComparison(ethersResults, viemResults): one row per ethers id.
RenderComparison(ethersResults, viemResults) ==
  [i \in 1..Len(ethersResults) |->
     << ethersResults[i].id,
        NatToString(DurationOf(ethersResults, ethersResults[i].id)),
        NatToString(DurationOf(viemResults, ethersResults[i].id)),
        Winner(DurationOf(ethersResults, ethersResults[i].id),
               DurationOf(viemResults, ethersResults[i].id)) >>]

\* The report text main assembles, section by section.
RenderReport(ethersResults, viemResults) ==
  [written |-> TRUE,
   title |-> "# API Comparison Report (MVP)",
   ethers |-> RenderClientSection("ethers.js", ethersResults),
   viem |-> RenderClientSection("viem", viemResults),
   comparison |-> RenderComparison(ethersResults, viemResults)]

\* Variant: a run in which a scenario failed ends with exit code 1.
WriteReport_ExitsOnFailure ==
  /\ mainPc = "report"
  /\ reportWrites' = reportWrites + 1
  /\ report' = RenderReport(results["ethers"], results["viem"])
  /\ mainPc' = "done"
  /\ exitCode' = IF \E r \in Runners : \E i \in 1..Len(results[r]) : ~results[r][i].success
                   THEN 1 ELSE 0
  /\ UNCHANGED << env, context, logged, runVars, nodeVars, histVars, now, faults, exec, harness, waitBlock >>

\* fs.writeFileSync(reportPath, report); the process then ends normally.
WriteReport ==
  /\ mainPc = "report"
  /\ reportWrites' = reportWrites + 1
  /\ report' = RenderReport(results["ethers"], results["viem"])
  /\ mainPc' = "done"
  /\ exitCode' = 0
  /\ UNCHANGED << env, context, logged, runVars, nodeVars, histVars, now, faults, exec, harness, waitBlock >>

\* main().catch: console.error(error); process.exit(1).
MainCatch ==
  /\ \/ mainPc = "rejected"
     \/ mainPc \in Runners /\ runnerPc[mainPc] = "rejected"
  /\ logged' = Append(logged, IF mainPc = "rejected" THEN LoadContextOf(env).value
                                ELSE SetupError(mainPc))
  /\ mainPc' = "exited"
  /\ exitCode' = 1
  /\ UNCHANGED << env, context, reportWrites, report, runVars, nodeVars, histVars, now,
                  faults, exec, harness, waitBlock >>

\* ---------------------------------------------------------------- runner

InFlight(r, k) == taskPc[r][k] \notin {"idle", "settled"}

\* Variant: the two operands of ?? swapped.
TargetHashOf_NativeFirst(hashes) ==
  IF Has(hashes, "native") THEN [defined |-> TRUE, hash |-> hashes.native]
  ELSE IF Has(hashes, "contract") THEN [defined |-> TRUE, hash |-> hashes.contract]
  ELSE [defined |-> FALSE]

\* a ?? b on the two optional fields of txHashes.
TargetHashOf(hashes) ==
  IF Has(hashes, "contract") THEN [defined |-> TRUE, hash |-> hashes.contract]
  ELSE IF Has(hashes, "native") THEN [defined |-> TRUE, hash |-> hashes.native]
  ELSE [defined |-> FALSE]

\* Variant: the elements are not awaited one by one (collected promises).
CanStart_NoAwait(r, k) ==
  /\ runnerPc[r] = "running"
  /\ taskPc[r][k] = "idle"
  /\ IF k = 1 THEN TRUE ELSE taskPc[r][k - 1] # "idle"

\* Variant: a failed scenario ends the sequence.
CanStart_StopsOnFailure(r, k) ==
  /\ runnerPc[r] = "running"
  /\ taskPc[r][k] = "idle"
  /\ Len(results[r]) = k - 1
  /\ IF k = 1 THEN TRUE ELSE results[r][k - 1].success

\* `await runScenario(...)` as an element of the array literal: element k is
\* evaluated once the awaits of the elements before it have produced a value.
CanStart(r, k) ==
  /\ runnerPc[r] = "running"
  /\ taskPc[r][k] = "idle"
  /\ Len(results[r]) = k - 1

\* Requests a task issues when it is invoked, before its first await.
RpcAtCall(r, k) ==
  CASE k = ChainInfo -> 2
    [] k = AccountState -> 2
    [] k = ContractRead -> 1
    [] k = TxSendNative -> IF context.toAddress = "malformed" THEN 0 ELSE 1
    [] k = TxWriteContract -> 1
    [] k = TxQueryLifecycle ->
         IF ~TargetHashOf(txHashes[r]).defined THEN 0
         ELSE IF r = "ethers" THEN 2 ELSE 3

\* Hashes the task asks the node about when it is invoked.
QueriedAtCall(r, k) ==
  IF k = TxQueryLifecycle /\ TargetHashOf(txHashes[r]).defined
    THEN {TargetHashOf(txHashes[r]).hash}
    ELSE {}

\* runScenario(id, task): const start = Date.now(); then task() is called.
StartScenario(r, k) ==
  /\ CanStart(r, k)
  /\ start' = [start EXCEPT ![r][k] = now]
  /\ taskPc' = [taskPc EXCEPT ![r][k] = "called"]
  /\ invoked' = [invoked EXCEPT ![r][k] = @ + 1]
  /\ rpcCount' = [rpcCount EXCEPT ![r][k] = @ + RpcAtCall(r, k)]
  /\ queried' = [queried EXCEPT ![r] = @ \cup QueriedAtCall(r, k)]
  /\ fetched' = [fetched EXCEPT ![r] =
                   IF k = TxQueryLifecycle
                     THEN [targetHash |-> TargetHashOf(txHashes[r])]
                     ELSE @]
  /\ UNCHANGED << mainVars, runnerPc, txHashes, broadcast, results, nodeVars,
                  settledAs, now, faults, exec, harness, waitBlock >>

\* Variant: runScenario without its catch; a rejection rejects runAll.
Settle_NoCatch(r, k, settled) ==
  /\ taskPc' = [taskPc EXCEPT ![r][k] = "settled"]
  /\ settledAs' = [settledAs EXCEPT ![r][k] = settled]
  /\ IF settled.kind = "fulfilled"
       THEN /\ results' = [results EXCEPT ![r] =
                             Append(@, [id |-> ScenarioIds[k], success |-> TRUE,
                                        durationMs |-> now - start[r][k],
                                        output |-> settled.value])]
            /\ runnerPc' = runnerPc
       ELSE /\ results' = results
            /\ runnerPc' = [runnerPc EXCEPT ![r] = "rejected"]

\* Variant: a rejected task is called again instead of being reported.
Settle_Retry(r, k, settled) ==
  /\ runnerPc' = runnerPc
  /\ IF settled.kind = "fulfilled"
       THEN /\ taskPc' = [taskPc EXCEPT ![r][k] = "settled"]
            /\ settledAs' = [settledAs EXCEPT ![r][k] = settled]
            /\ results' = [results EXCEPT ![r] =
                             Append(@, [id |-> ScenarioIds[k], success |-> TRUE,
                                        durationMs |-> now - start[r][k],
                                        output |-> settled.value])]
       ELSE /\ taskPc' = [taskPc EXCEPT ![r][k] = "idle"]
            /\ settledAs' = settledAs
            /\ results' = results

\* The task's promise settles and runScenario returns its result, which
\* becomes the next element of the list runAll is building.
Settle(r, k, settled) ==
  /\ taskPc' = [taskPc EXCEPT ![r][k] = "settled"]
  /\ settledAs' = [settledAs EXCEPT ![r][k] = settled]
  /\ results' = [results EXCEPT ![r] =
                   Append(@, RunScenario(ScenarioIds[k], start[r][k], now, settled))]
  /\ runnerPc' = runnerPc

\* A request that does not get its answer (transport or node failure).
RpcError == MkError("request failed")

\* The task's last await ends: with its answers, or with a failed request.
TaskEnds(r, k, output) ==
  \/ /\ Settle(r, k, Fulfilled(output))
     /\ faults' = faults
  \/ /\ faults < MaxFaults
     /\ Settle(r, k, Rejected(RpcError))
     /\ faults' = faults + 1

\* Address derived from the signing key.
AccountAddress == "0xf39Fd6e51aad88F6F4ce6aB8827279cffFb92266"

\* chain-info: chain id and latest block number, as JS numbers.
ChainInfoOutput(r) ==
  IF r = "ethers"
    THEN [chainId |-> ToNumber(BigInt(FoundryChainId)), blockNumber |-> blockNumber]
    ELSE [chainId |-> FoundryChainId, blockNumber |-> ToNumber(BigInt(blockNumber))]

\* Variant: asking for the chain's head makes the node seal a block.
ChainInfoTask_Mines(r) ==
  /\ taskPc[r][ChainInfo] = "called"
  /\ TaskEnds(r, ChainInfo, ChainInfoOutput(r))
  /\ blockNumber' = blockNumber + 1
  /\ UNCHANGED << mainVars, start, txHashes, broadcast, fetched, txs, count,
                  rpcCount, queried, invoked, now, exec, harness, waitBlock >>

\* The two reads of chain-info are answered, or one of them fails.
ChainInfoTask(r) ==
  /\ taskPc[r][ChainInfo] = "called"
  /\ TaskEnds(r, ChainInfo, ChainInfoOutput(r))
  /\ UNCHANGED << mainVars, start, txHashes, broadcast, fetched, nodeVars,
                  rpcCount, queried, invoked, now, exec, harness, waitBlock >>

\* Fraction digits of formatEther for a balance counted in 10^-4 ether.
FractionDigits(f) ==
  IF f % 1000 = 0 THEN NatToString(f \div 1000)
  ELSE IF f % 100 = 0 THEN
    (IF f < 1000 THEN "0" ELSE "") \o NatToString(f \div 100)
  ELSE IF f % 10 = 0 THEN
    (IF f < 100 THEN "00" ELSE IF f < 1000 THEN "0" ELSE "") \o NatToString(f \div 10)
  ELSE (IF f < 10 THEN "000" ELSE IF f < 100 THEN "00" ELSE IF f < 1000 THEN "0" ELSE "")
         \o NatToString(f)

\* formatEther(balance): decimal string without trailing zeros.
FormatEther(units) ==
  IF units % 10000 = 0 THEN NatToString(units \div 10000)
  ELSE NatToString(units \div 10000) \o "." \o FractionDigits(units % 10000)

\* account-state: the viem runner adds balanceEth.
AccountStateOutput(r) ==
  IF r = "ethers"
    THEN [address |-> AccountAddress, balanceWei |-> NatToString(Balance),
          nonce |-> Nonce]
    ELSE [address |-> AccountAddress, balanceWei |-> NatToString(Balance),
          balanceEth |-> FormatEther(Balance), nonce |-> Nonce]

AccountStateTask(r) ==
  /\ taskPc[r][AccountState] = "called"
  /\ TaskEnds(r, AccountState, AccountStateOutput(r))
  /\ UNCHANGED << mainVars, start, txHashes, broadcast, fetched, nodeVars,
                  rpcCount, queried, invoked, now, exec, harness, waitBlock >>

\* contract-read: Counter.getCount() as a decimal string.
ContractReadOutput(r) == [count |-> NatToString(count)]

ContractReadTask(r) ==
  /\ taskPc[r][ContractRead] = "called"
  /\ TaskEnds(r, ContractRead, ContractReadOutput(r))
  /\ UNCHANGED << mainVars, start, txHashes, broadcast, fetched, nodeVars,
                  rpcCount, queried, invoked, now, exec, harness, waitBlock >>

\* txHashes field written by each of the two sending scenarios.
HashField(k) == IF k = TxSendNative THEN "native" ELSE "contract"

\* Variant: the count is the plain difference of the two block numbers.
EthersConfirmations_Exclusive(tx, currentBlock) ==
  IF ~tx.null /\ tx.blockNumber # 0 THEN currentBlock - tx.blockNumber ELSE 0

\* Variant: the hash is recorded in txHashes as soon as it is known.
Broadcast_RecordsHash(r, k, kind) ==
  /\ Accept(kind)
  /\ broadcast' = [broadcast EXCEPT ![r] = SetField(@, HashField(k), NextHash)]
  /\ txHashes' = [txHashes EXCEPT ![r] = SetField(@, HashField(k), NextHash)]
  /\ taskPc' = [taskPc EXCEPT ![r][k] = "waiting"]
  /\ rpcCount' = [rpcCount EXCEPT ![r][k] = @ + 1]
  /\ waitBlock' = [waitBlock EXCEPT ![r] = blockNumber]
  /\ UNCHANGED << runnerPc, results, settledAs, faults >>

\* The node took the signed transaction: the task keeps its hash and goes on
\* to wait for the receipt; the wait begins by reading the block number.
Broadcast(r, k, kind) ==
  /\ Accept(kind)
  /\ broadcast' = [broadcast EXCEPT ![r] = SetField(@, HashField(k), NextHash)]
  /\ taskPc' = [taskPc EXCEPT ![r][k] = "waiting"]
  /\ rpcCount' = [rpcCount EXCEPT ![r][k] = @ + 1]
  /\ waitBlock' = [waitBlock EXCEPT ![r] = blockNumber]
  /\ UNCHANGED << runnerPc, results, settledAs, txHashes, faults >>

\* The task ends before anything was broadcast.
FailsUnsent(r, k, thrown) ==
  /\ Settle(r, k, Rejected(thrown))
  /\ UNCHANGED << txs, broadcast, rpcCount, txHashes, waitBlock >>

\* tx-send-native, first await: sendTransaction({to: ctx.toAddress, value}).
\* A malformed address is refused by the library before anything is sent.
SendNativeTask(r) ==
  /\ taskPc[r][TxSendNative] = "called"
  /\ IF context.toAddress = "malformed"
       THEN FailsUnsent(r, TxSendNative, MkError("invalid address")) /\ faults' = faults
       ELSE \/ Broadcast(r, TxSendNative, "native")
            \/ /\ faults < MaxFaults
               /\ FailsUnsent(r, TxSendNative, RpcError)
               /\ faults' = faults + 1
  /\ UNCHANGED << mainVars, start, fetched, blockNumber, count,
                  queried, invoked, now, exec, harness >>

\* tx-write-contract, first await: counter.increment().
WriteContractTask(r) ==
  /\ taskPc[r][TxWriteContract] = "called"
  /\ \/ Broadcast(r, TxWriteContract, "increment")
     \/ /\ faults < MaxFaults
        /\ FailsUnsent(r, TxWriteContract, RpcError)
        /\ faults' = faults + 1
  /\ UNCHANGED << mainVars, start, fetched, blockNumber, count,
                  queried, invoked, now, exec, harness >>

\* Receipt status as each library reports it.
ReceiptStatus(r, h) ==
  IF r = "ethers" THEN txs[h].status
  ELSE IF txs[h].status = 1 THEN "success" ELSE "reverted"

\* Output of the two sending scenarios once the receipt is there.
SentOutput(r, h) ==
  IF r = "ethers"
    THEN [hash |-> h, status |-> ReceiptStatus(r, h), blockNumber |-> txs[h].blockNumber]
    ELSE [hash |-> h, status |-> ReceiptStatus(r, h),
          blockNumber |-> ToNumber(BigInt(txs[h].blockNumber))]

\* tx.wait() of ethers rejects for a reverted transaction;
\* waitForTransactionReceipt of viem returns its receipt.
WaitThrows(r, h) == r = "ethers" /\ txs[h].status = 0

\* Variant: the task returns what the node knows once the hash is known,
\* without waiting for the transaction to be included.
AwaitReceipt_NoWait(r, k) ==
  /\ k \in {TxSendNative, TxWriteContract}
  /\ taskPc[r][k] = "waiting"
  /\ LET h == broadcast[r][HashField(k)] IN
       /\ txHashes' = [txHashes EXCEPT ![r] = SetField(@, HashField(k), h)]
       /\ Settle(r, k, Fulfilled(SentOutput(r, h)))
       /\ faults' = faults
  /\ UNCHANGED << mainVars, start, broadcast, fetched, nodeVars, rpcCount,
                  queried, invoked, now, exec, harness, waitBlock >>

\* Second await of a sending scenario: the receipt arrives, then the hash is
\* recorded in txHashes and the task returns; or the wait fails.
AwaitReceipt(r, k) ==
  /\ k \in {TxSendNative, TxWriteContract}
  /\ taskPc[r][k] = "waiting"
  /\ LET h == broadcast[r][HashField(k)] IN
       \/ /\ Included(h)
          /\ WaitThrows(r, h)
          /\ Settle(r, k, Rejected(MkError("transaction execution reverted")))
          /\ UNCHANGED << txHashes, faults >>
       \/ /\ Included(h)
          /\ ~WaitThrows(r, h)
          /\ txHashes' = [txHashes EXCEPT ![r] = SetField(@, HashField(k), h)]
          /\ Settle(r, k, Fulfilled(SentOutput(r, h)))
          /\ faults' = faults
       \/ /\ faults < MaxFaults
          /\ Settle(r, k, Rejected(RpcError))
          /\ faults' = faults + 1
          /\ txHashes' = txHashes
  /\ UNCHANGED << mainVars, start, broadcast, fetched, nodeVars, rpcCount,
                  queried, invoked, now, exec, harness, waitBlock >>

\* A value that is null, and what the node knows about a hash.
Null == [null |-> TRUE]

AddressOf(kind) == IF kind = "native" THEN context.toAddress ELSE context.counterAddress

\* eth_getTransactionByHash: blockNumber is null (0 here) while pending.
GetTransaction(h) ==
  IF h \in Hashes
    THEN [null |-> FALSE, hash |-> h, blockNumber |-> txs[h].blockNumber,
          to |-> AddressOf(txs[h].kind)]
    ELSE Null

\* eth_getTransactionReceipt: null until the transaction is included.
GetTransactionReceipt(h) ==
  IF Included(h)
    THEN [null |-> FALSE, status |-> txs[h].status, blockNumber |-> txs[h].blockNumber]
    ELSE Null

\* tx?.blockNumber ? currentBlock - tx.blockNumber + 1 : 0
EthersConfirmations(tx, currentBlock) ==
  IF ~tx.null /\ tx.blockNumber # 0 THEN currentBlock - tx.blockNumber + 1 ELSE 0

\* Number(currentBlock - tx.blockNumber + 1n)
ViemConfirmations(tx, currentBlock) ==
  ToNumber(BigInt(currentBlock.bigint - tx.blockNumber + 1))

EthersQueryOutput(target, tx, receipt, currentBlock) ==
  [hash |-> target,
   hasTransaction |-> ~tx.null,
   hasReceipt |-> ~receipt.null,
   status |-> IF receipt.null THEN "null" ELSE receipt.status,
   confirmations |-> EthersConfirmations(tx, currentBlock)]

ViemQueryOutput(target, tx, receipt, currentBlock) ==
  [hash |-> target,
   status |-> IF receipt.status = 1 THEN "success" ELSE "reverted",
   confirmations |-> ViemConfirmations(tx, currentBlock),
   blockNumber |-> ToNumber(BigInt(tx.blockNumber)),
   to |-> tx.to]

NoHashError == MkError("No transaction hash found from previous steps")

\* What getBlockNumber() can resolve to in tx-query-lifecycle: the node's
\* height now, or the height the client read when it last began to wait for
\* a receipt, which both libraries may still hold and answer from (the run
\* recorded in reports/compare.md reports a height one below the block of
\* the queried transaction, for both runners).
BlockNumberAnswers(r) ==
  {blockNumber} \cup (IF waitBlock[r] > 0 THEN {waitBlock[r]} ELSE {})

\* tx-query-lifecycle up to its first await. Without a target hash the task
\* throws at once. ethers awaits [getTransaction, getTransactionReceipt] and
\* then asks for the block number; viem awaits the three together, and its
\* two lookups throw for a hash the node does not know or has not included.
QueryLifecycleTask(r) ==
  /\ taskPc[r][TxQueryLifecycle] = "called"
  /\ LET target == fetched[r].targetHash IN
       IF ~target.defined
         THEN /\ Settle(r, TxQueryLifecycle, Rejected(NoHashError))
              /\ UNCHANGED << fetched, rpcCount, faults >>
       ELSE
         \/ /\ faults < MaxFaults
            /\ Settle(r, TxQueryLifecycle, Rejected(RpcError))
            /\ faults' = faults + 1
            /\ UNCHANGED << fetched, rpcCount >>
         \/ /\ r = "ethers"
            /\ fetched' = [fetched EXCEPT ![r] =
                             [targetHash |-> target,
                              tx |-> GetTransaction(target.hash),
                              receipt |-> GetTransactionReceipt(target.hash)]]
            /\ taskPc' = [taskPc EXCEPT ![r][TxQueryLifecycle] = "block"]
            /\ rpcCount' = [rpcCount EXCEPT ![r][TxQueryLifecycle] = @ + 1]
            /\ UNCHANGED << runnerPc, results, settledAs, faults >>
         \/ /\ r = "viem"
            /\ \E b \in BlockNumberAnswers(r) :
                 /\ IF GetTransaction(target.hash).null
                         \/ GetTransactionReceipt(target.hash).null
                      THEN Settle(r, TxQueryLifecycle,
                                  Rejected(MkError("transaction not found")))
                      ELSE Settle(r, TxQueryLifecycle,
                                  Fulfilled(ViemQueryOutput(target.hash,
                                                            GetTransaction(target.hash),
                                                            GetTransactionReceipt(target.hash),
                                                            BigInt(b))))
                 /\ fetched' = [fetched EXCEPT ![r] =
                                  [targetHash |-> target,
                                   tx |-> GetTransaction(target.hash),
                                   receipt |-> GetTransactionReceipt(target.hash),
                                   currentBlock |-> BigInt(b)]]
            /\ UNCHANGED << rpcCount, faults >>
  /\ UNCHANGED << mainVars, start, txHashes, broadcast, nodeVars, queried,
                  invoked, now, exec, harness, waitBlock >>

\* ethers, second await of tx-query-lifecycle: provider.getBlockNumber().
QueryBlockNumber(r) ==
  /\ taskPc[r][TxQueryLifecycle] = "block"
  /\ \/ \E b \in BlockNumberAnswers(r) :
          /\ Settle(r, TxQueryLifecycle,
                    Fulfilled(EthersQueryOutput(fetched[r].targetHash.hash, fetched[r].tx,
                                                fetched[r].receipt, b)))
          /\ fetched' = [fetched EXCEPT ![r] =
                           [targetHash |-> @.targetHash, tx |-> @.tx,
                            receipt |-> @.receipt, currentBlock |-> b]]
          /\ faults' = faults
     \/ /\ faults < MaxFaults
        /\ Settle(r, TxQueryLifecycle, Rejected(RpcError))
        /\ faults' = faults + 1
        /\ fetched' = fetched
  /\ UNCHANGED << mainVars, start, txHashes, broadcast, nodeVars,
                  rpcCount, queried, invoked, now, exec, harness, waitBlock >>

\* A millisecond passes while some task is awaiting the network.
Tick ==
  /\ now < MaxClock
  /\ \E r \in Runners, k \in Scenarios : InFlight(r, k)
  /\ now' = now + 1
  /\ UNCHANGED << mainVars, runVars, nodeVars, histVars, faults, exec, harness, waitBlock >>

\* --------------------------------------------------------------- harness

\* The hashes a bookkeeping object holds.
RecordedIn(hashes) == {hashes[f] : f \in DOMAIN hashes}

\* A caller holding a loaded context: nothing has run yet.
InitHarness ==
  /\ env \in {e \in Environments : /\ e.deployment /\ e.artifact
                                   /\ e.PRIVATE_KEY = "valid"
                                   /\ LoadContextOf(e).kind = "fulfilled"}
  /\ mainPc = "harness"
  /\ context = LoadContextOf(env).value
  /\ exitCode = -1
  /\ reportWrites = 0
  /\ report = NoReport
  /\ logged = << >>
  /\ harness = HarnessIdle
  /\ waitBlock = [r \in Runners |-> 0]
  /\ runnerPc = [r \in Runners |-> "idle"]
  /\ taskPc = [r \in Runners |-> [k \in Scenarios |-> "idle"]]
  /\ start = [r \in Runners |-> [k \in Scenarios |-> 0]]
  /\ txHashes = [r \in Runners |-> EmptyObject]
  /\ broadcast = [r \in Runners |-> EmptyObject]
  /\ fetched = [r \in Runners |-> EmptyObject]
  /\ results = [r \in Runners |-> << >>]
  /\ now = 0
  /\ faults = 0
  /\ blockNumber = 1
  /\ txs = EmptyObject
  /\ count = 0
  /\ settledAs = [r \in Runners |-> [k \in Scenarios |-> NotSettled]]
  /\ rpcCount = [r \in Runners |-> [k \in Scenarios |-> 0]]
  /\ queried = [r \in Runners |-> {}]
  /\ invoked = [r \in Runners |-> [k \in Scenarios |-> 0]]
  /\ exec = ExecIdle

\* await runner.runAll(context), called again by the same caller: every
\* local of the invocation is new, the node keeps its state.
HarnessCall(r) ==
  /\ mainPc = "harness"
  /\ harness.calls < MaxCalls
  /\ harness' = [calls |-> harness.calls + 1,
                 earlier |-> [harness.earlier EXCEPT ![r] = @ \cup RecordedIn(txHashes[r])]]
  /\ mainPc' = r
  /\ runnerPc' = [runnerPc EXCEPT ![r] = "running"]
  /\ txHashes' = [txHashes EXCEPT ![r] = NewTxHashes(r)]
  /\ taskPc' = [taskPc EXCEPT ![r] = [k \in Scenarios |-> "idle"]]
  /\ start' = [start EXCEPT ![r] = [k \in Scenarios |-> 0]]
  /\ broadcast' = [broadcast EXCEPT ![r] = EmptyObject]
  /\ fetched' = [fetched EXCEPT ![r] = EmptyObject]
  /\ results' = [results EXCEPT ![r] = << >>]
  /\ settledAs' = [settledAs EXCEPT ![r] = [k \in Scenarios |-> NotSettled]]
  /\ rpcCount' = [rpcCount EXCEPT ![r] = [k \in Scenarios |-> 0]]
  /\ queried' = [queried EXCEPT ![r] = {}]
  /\ invoked' = [invoked EXCEPT ![r] = [k \in Scenarios |-> 0]]
  /\ waitBlock' = [waitBlock EXCEPT ![r] = 0]
  /\ UNCHANGED << env, context, exitCode, reportWrites, report, logged, nodeVars,
                  now, faults, exec >>

\* runAll returns its list to the caller.
HarnessReturn(r) ==
  /\ mainPc = r
  /\ runnerPc[r] = "running"
  /\ CanReturn(r)
  /\ runnerPc' = [runnerPc EXCEPT ![r] = "returned"]
  /\ mainPc' = "harness"
  /\ UNCHANGED << env, context, exitCode, reportWrites, report, logged, taskPc,
                  start, txHashes, broadcast, fetched, results, nodeVars, histVars,
                  now, faults, exec, harness, waitBlock >>

\* ---------------------------------------------------------------- render

\* Results handed to the renderer: a success or a failure of one of two
\* scenarios, with a duration within the clock's range.
RenderResults ==
  { [id |-> i, success |-> TRUE, durationMs |-> d, output |-> EmptyObject] :
      i \in {"chain-info", "account-state"}, d \in 0..MaxClock }
  \cup
  { [id |-> i, success |-> FALSE, durationMs |-> d, output |-> EmptyObject,
     error |-> "request failed"] :
      i \in {"chain-info", "account-state"}, d \in 0..MaxClock }

\* Result lists of up to two entries; the ids of a list need not differ and
\* the two lists need not hold the same ids.
RenderLists == UNION { [1..n -> RenderResults] : n \in 0..2 }

\* renderComparison is about to be called with two lists.
InitRender ==
  /\ env = [deployment |-> TRUE, artifact |-> TRUE, RPC_URL |-> "http://127.0.0.1:8545",
            PRIVATE_KEY |-> "valid", TO_ADDRESS |-> "valid"]
  /\ mainPc = "render"
  /\ context = LoadContextOf(env).value
  /\ exitCode = -1
  /\ reportWrites = 0
  /\ report = NoReport
  /\ logged = << >>
  /\ harness = HarnessIdle
  /\ waitBlock = [r \in Runners |-> 0]
  /\ runnerPc = [r \in Runners |-> "returned"]
  /\ taskPc = [r \in Runners |-> [k \in Scenarios |-> "idle"]]
  /\ start = [r \in Runners |-> [k \in Scenarios |-> 0]]
  /\ txHashes = [r \in Runners |-> EmptyObject]
  /\ broadcast = [r \in Runners |-> EmptyObject]
  /\ fetched = [r \in Runners |-> EmptyObject]
  /\ results \in [Runners -> RenderLists]
  /\ now = 0
  /\ faults = 0
  /\ blockNumber = 1
  /\ txs = EmptyObject
  /\ count = 0
  /\ settledAs = [r \in Runners |-> [k \in Scenarios |-> NotSettled]]
  /\ rpcCount = [r \in Runners |-> [k \in Scenarios |-> 0]]
  /\ queried = [r \in Runners |-> {}]
  /\ invoked = [r \in Runners |-> [k \in Scenarios |-> 0]]
  /\ exec = ExecIdle

\* renderComparison(ethersResults, viemResults) returns its table.
Render ==
  /\ mainPc = "render"
  /\ report' = [written |-> FALSE,
                comparison |-> RenderComparison(results["ethers"], results["viem"])]
  /\ mainPc' = "rendered"
  /\ UNCHANGED << env, context, exitCode, reportWrites, logged, runVars, nodeVars,
                  histVars, now, faults, exec, harness, waitBlock >>

NextRender == Render

SpecRender == InitRender /\ [][NextRender]_vars

\* ------------------------------------------------------------ behaviours

Next ==
  \/ LoadContext
  \/ \E r \in Runners : CallRunAll(r)
  \/ \E r \in Runners, k \in Scenarios : StartScenario(r, k)
  \/ \E r \in Runners : ChainInfoTask(r)
  \/ \E r \in Runners : AccountStateTask(r)
  \/ \E r \in Runners : ContractReadTask(r)
  \/ \E r \in Runners : SendNativeTask(r)
  \/ \E r \in Runners : WriteContractTask(r)
  \/ \E r \in Runners, k \in Scenarios : AwaitReceipt(r, k)
  \/ \E r \in Runners : QueryLifecycleTask(r)
  \/ \E r \in Runners : QueryBlockNumber(r)
  \/ \E r \in Runners : RunAllReturn(r)
  \/ WriteReport
  \/ MainCatch
  \/ Mine
  \/ Tick

Spec == Init /\ [][Next]_vars

NextHarness ==
  \/ \E r \in Runners : HarnessCall(r)
  \/ \E r \in Runners, k \in Scenarios : StartScenario(r, k)
  \/ \E r \in Runners : ChainInfoTask(r)
  \/ \E r \in Runners : AccountStateTask(r)
  \/ \E r \in Runners : ContractReadTask(r)
  \/ \E r \in Runners : SendNativeTask(r)
  \/ \E r \in Runners : WriteContractTask(r)
  \/ \E r \in Runners, k \in Scenarios : AwaitReceipt(r, k)
  \/ \E r \in Runners : QueryLifecycleTask(r)
  \/ \E r \in Runners : QueryBlockNumber(r)
  \/ \E r \in Runners : HarnessReturn(r)
  \/ Mine

SpecHarness == InitHarness /\ [][NextHarness]_vars

\* ------------------------------------------- runScenario on its own task

\* Mappings a task may return and values it may throw or reject with.
SampleOutputs ==
  { EmptyObject, [count |-> "1"], [chainId |-> FoundryChainId, blockNumber |-> 8] }

SampleThrown ==
  { MkError("request failed"), MkError(""), ThrownString("timeout"),
    ThrownNumber(503), ThrownNull }

TaskBehaviours ==
  {Fulfilled(o) : o \in SampleOutputs} \cup {Rejected(v) : v \in SampleThrown}

InitExec ==
  /\ env = [deployment |-> TRUE, artifact |-> TRUE, RPC_URL |-> "http://127.0.0.1:8545",
            PRIVATE_KEY |-> "valid", TO_ADDRESS |-> "valid"]
  /\ InitRun
  /\ \E i \in Scenarios, t \in TaskBehaviours :
       exec = [pc |-> "ready", id |-> ScenarioIds[i], task |-> t]

\* const start = Date.now(); the task is called.
ExecCall ==
  /\ exec.pc = "ready"
  /\ exec' = [pc |-> "running", id |-> exec.id, task |-> exec.task, start |-> now]
  /\ UNCHANGED << mainVars, runVars, nodeVars, histVars, now, faults, harness, waitBlock >>

\* The task settles; runScenario returns from its try or its catch branch.
ExecSettle ==
  /\ exec.pc = "running"
  /\ exec' = [pc |-> "returned", id |-> exec.id, task |-> exec.task,
              start |-> exec.start, settledAt |-> now,
              result |-> RunScenario(exec.id, exec.start, now, exec.task)]
  /\ UNCHANGED << mainVars, runVars, nodeVars, histVars, now, faults, harness, waitBlock >>

\* A millisecond passes.
ExecTick ==
  /\ exec.pc # "none"
  /\ now < MaxTaskMs
  /\ now' = now + 1
  /\ UNCHANGED << mainVars, runVars, nodeVars, histVars, faults, exec, harness, waitBlock >>

\* Date.now() reads the system's wall clock, which can be set back (a time
\* synchronisation step, a manual change) between two readings.
ExecClockSetBack ==
  /\ exec.pc \in {"ready", "running"}
  /\ now > 0
  /\ \E t \in 0..(now - 1) : now' = t
  /\ UNCHANGED << mainVars, runVars, nodeVars, histVars, faults, exec, harness, waitBlock >>

NextExec == ExecCall \/ ExecSettle \/ ExecTick \/ ExecClockSetBack

SpecExec == InitExec /\ [][NextExec]_vars

\* ---------------------------------------------------------------- claims

Settled(r, k) == taskPc[r][k] = "settled"

HasResult(r, k) == k <= Len(results[r])

Failed(r, k) == HasResult(r, k) /\ ~results[r][k].success

Succeeded(r, k) == HasResult(r, k) /\ results[r][k].success

\* Number of results of a runner that carry the id of scenario k.
NumResults(r, k) ==
  Cardinality({i \in 1..Len(results[r]) : results[r][i].id = ScenarioIds[k]})

\* C1: a runner's list holds the six scenario ids in the fixed order, each
\* once, whatever succeeded or failed: the list is always a prefix of that
\* order while runAll runs, it is complete when runAll returns, and runAll
\* never rejects once a scenario has been started.
C1_SixResultsInOrder ==
  \A r \in Runners :
    /\ Len(results[r]) <= NumScenarios
    /\ \A i \in 1..Len(results[r]) : results[r][i].id = ScenarioIds[i]
    /\ runnerPc[r] = "returned" =>
         /\ Len(results[r]) = 6
         /\ << results[r][1].id, results[r][2].id, results[r][3].id,
               results[r][4].id, results[r][5].id, results[r][6].id >>
            = << "chain-info", "account-state", "contract-read",
                 "tx-send-native", "tx-write-contract", "tx-query-lifecycle" >>
    /\ runnerPc[r] = "rejected" => \A k \in Scenarios : invoked[r][k] = 0

\* Both runners returned, with failures and successes mixed in each list.
C1_Witness ==
  \A r \in Runners :
    /\ runnerPc[r] = "returned"
    /\ \E i, j \in Scenarios : Failed(r, i) /\ Succeeded(r, j)

\* String form of each sampled thrown value, and message of each Error.
C2_ExpectedText(thrown) ==
  CASE thrown = MkError("request failed") -> "request failed"
    [] thrown = MkError("") -> ""
    [] thrown = ThrownString("timeout") -> "timeout"
    [] thrown = ThrownNumber(503) -> "503"
    [] thrown = ThrownNull -> "null"

\* C2: when the task rejects with any value, runScenario returns a result
\* with the given id, success=false, the empty output, the Error's message
\* (or the string form of a value that is no Error) as error, and the time
\* from the call to the rejection as duration.
C2_FailureResult ==
  (exec.pc = "returned" /\ exec.task.kind = "rejected") =>
    /\ exec.result.id = exec.id
    /\ exec.result.success = FALSE
    /\ DOMAIN exec.result.output = {}
    /\ Has(exec.result, "error")
    /\ exec.result.error = C2_ExpectedText(exec.task.value)
    /\ exec.result.durationMs = exec.settledAt - exec.start

\* A task that rejected with a number after a wait, started after time 0.
C2_Witness ==
  /\ exec.pc = "returned"
  /\ exec.task = Rejected(ThrownNumber(503))
  /\ exec.start > 0
  /\ exec.result.durationMs > 0
  /\ exec.result.error = "503"

\* C3: when a scenario's task returns normally, its result has the
\* scenario's id, success=true, the mapping the task returned as output, and
\* no error field.
C3_SuccessResult ==
  \A r \in Runners, k \in Scenarios :
    (HasResult(r, k) /\ settledAs[r][k].kind = "fulfilled") =>
      /\ results[r][k].id = ScenarioIds[k]
      /\ results[r][k].success = TRUE
      /\ results[r][k].output = settledAs[r][k].value
      /\ ~Has(results[r][k], "error")

\* tx-write-contract of the viem runner returned its hash/status/block.
C3_Witness ==
  /\ HasResult("viem", TxWriteContract)
  /\ settledAs["viem"][TxWriteContract].kind = "fulfilled"
  /\ results["viem"][TxWriteContract].output.status = "success"
  /\ results["viem"][TxWriteContract].output.blockNumber > 1

\* Output fields each scenario reports on success, per runner.
C4_Fields(r, id) ==
  CASE id = "chain-info" -> {"chainId", "blockNumber"}
    [] id = "account-state" ->
         IF r = "ethers" THEN {"address", "balanceWei", "nonce"}
         ELSE {"address", "balanceWei", "balanceEth", "nonce"}
    [] id = "contract-read" -> {"count"}
    [] id = "tx-send-native" -> {"hash", "status", "blockNumber"}
    [] id = "tx-write-contract" -> {"hash", "status", "blockNumber"}
    [] id = "tx-query-lifecycle" ->
         IF r = "ethers"
           THEN {"hash", "hasTransaction", "hasReceipt", "status", "confirmations"}
           ELSE {"hash", "status", "confirmations", "blockNumber", "to"}

\* C4: in every result, error is present iff success is false, and output
\* carries the scenario's fields iff success is true; it is empty otherwise.
C4_ErrorIffFailure ==
  \A r \in Runners : \A i \in 1..Len(results[r]) :
    LET res == results[r][i] IN
      /\ Has(res, "error") <=> ~res.success
      /\ res.success => DOMAIN res.output = C4_Fields(r, res.id)
      /\ ~res.success => DOMAIN res.output = {}
      /\ (DOMAIN res.output # {}) <=> res.success

\* A returned list holding a success (with fields) next to a failure.
C4_Witness ==
  \E r \in Runners :
    /\ runnerPc[r] = "returned"
    /\ Succeeded(r, ChainInfo) /\ Has(results[r][ChainInfo].output, "chainId")
    /\ Failed(r, ContractRead) /\ results[r][ContractRead].error = "request failed"

\* C5: a failed scenario k (1..5) does not stop the run: the runner is not
\* rejected, the task of scenario k+1 can be started when it has not been
\* yet, and when runAll returns every later scenario was started and has
\* its own result.
C5_FailureDoesNotStopRun ==
  \A r \in Runners, k \in 1..5 :
    Failed(r, k) =>
      /\ runnerPc[r] \in {"running", "returned"}
      /\ taskPc[r][k + 1] = "idle" => ENABLED StartScenario(r, k + 1)
      /\ runnerPc[r] = "returned" =>
           \A j \in (k + 1)..6 :
             /\ invoked[r][j] = 1
             /\ Settled(r, j)
             /\ results[r][j].id = ScenarioIds[j]

\* tx-send-native failed on the malformed toAddress and the two scenarios
\* after it ran and succeeded.
C5_Witness ==
  \E r \in Runners :
    /\ runnerPc[r] = "returned"
    /\ context.toAddress = "malformed"
    /\ Failed(r, TxSendNative) /\ results[r][TxSendNative].error = "invalid address"
    /\ Succeeded(r, TxWriteContract)
    /\ Succeeded(r, TxQueryLifecycle)

\* C6: each scenario task is invoked at most once while runAll runs and
\* exactly once by the time it returns, failed or not, and each invocation
\* that settled created exactly one result.
C6_InvokedOnce ==
  \A r \in Runners, k \in Scenarios :
    /\ invoked[r][k] <= 1
    /\ NumResults(r, k) = IF Settled(r, k) THEN 1 ELSE 0
    /\ NumResults(r, k) <= invoked[r][k]
    /\ runnerPc[r] = "returned" => invoked[r][k] = 1 /\ NumResults(r, k) = 1

\* A returned run in which two scenarios failed, one on a failed request
\* and one on the malformed toAddress.
C6_Witness ==
  \E r \in Runners :
    /\ runnerPc[r] = "returned"
    /\ Failed(r, AccountState) /\ Failed(r, TxSendNative)
    /\ \A k \in Scenarios : invoked[r][k] = 1

\* C7: scenarios of a runner run one after the other: a task that has been
\* started, or has issued a request, finds every earlier scenario settled,
\* so at most one scenario of a runner is in flight.
C7_Sequential ==
  \A r \in Runners :
    /\ Cardinality({k \in Scenarios : InFlight(r, k)}) <= 1
    /\ \A k \in Scenarios :
         (taskPc[r][k] # "idle" \/ rpcCount[r][k] > 0 \/ invoked[r][k] > 0) =>
           \A j \in 1..(k - 1) : Settled(r, j) /\ HasResult(r, j)

\* tx-write-contract is waiting for its receipt, everything before settled.
C7_Witness ==
  \E r \in Runners :
    /\ taskPc[r][TxWriteContract] = "waiting"
    /\ rpcCount[r][TxWriteContract] = 2
    /\ \A j \in 1..4 : Settled(r, j)
    /\ now > start[r][TxWriteContract]

\* Hash a sending scenario reported in its successful result, if any.
Produced(r, k) == IF Succeeded(r, k) THEN {results[r][k].output.hash} ELSE {}

\* C8: tx-query-lifecycle asks the node about the hash tx-write-contract of
\* the same call reported when it succeeded, else about the one
\* tx-send-native reported, and about no other hash; the hashes reported
\* are the ones this call broadcast.
C8_QueriedHash ==
  \A r \in Runners :
    /\ taskPc[r][TxQueryLifecycle] = "idle" => queried[r] = {}
    /\ taskPc[r][TxQueryLifecycle] # "idle" =>
         queried[r] = IF Produced(r, TxWriteContract) # {}
                        THEN Produced(r, TxWriteContract)
                        ELSE Produced(r, TxSendNative)
    /\ Produced(r, TxWriteContract) # {} =>
         Produced(r, TxWriteContract) = {broadcast[r].contract}
    /\ Produced(r, TxSendNative) # {} =>
         Produced(r, TxSendNative) = {broadcast[r].native}
    /\ Succeeded(r, TxQueryLifecycle) =>
         queried[r] = {results[r][TxQueryLifecycle].output.hash}

\* tx-write-contract broadcast a transaction but failed, and the query
\* fell back to the hash of tx-send-native.
C8_Witness ==
  \E r \in Runners :
    /\ Failed(r, TxWriteContract)
    /\ Has(broadcast[r], "contract")
    /\ Succeeded(r, TxSendNative)
    /\ Succeeded(r, TxQueryLifecycle)
    /\ queried[r] = {broadcast[r].native}

\* C9: when neither tx-send-native nor tx-write-contract succeeded in the
\* call, tx-query-lifecycle issues no request, and its result is a failure
\* whose error is the "no transaction hash" message.
C9_NoHashFails ==
  \A r \in Runners :
    (Failed(r, TxSendNative) /\ Failed(r, TxWriteContract)) =>
      /\ rpcCount[r][TxQueryLifecycle] = 0
      /\ queried[r] = {}
      /\ taskPc[r][TxQueryLifecycle] \in {"idle", "called", "settled"}
      /\ HasResult(r, TxQueryLifecycle) =>
           /\ results[r][TxQueryLifecycle].success = FALSE
           /\ results[r][TxQueryLifecycle].error
                = "No transaction hash found from previous steps"

\* tx-send-native failed, tx-write-contract failed after broadcasting, the
\* other runner left its transactions on the node, and the query failed
\* without a request.
C9_Witness ==
  /\ Failed("viem", TxSendNative)
  /\ Failed("viem", TxWriteContract) /\ Has(broadcast["viem"], "contract")
  /\ Succeeded("ethers", TxWriteContract)
  /\ Failed("viem", TxQueryLifecycle)
  /\ rpcCount["viem"][TxQueryLifecycle] = 0

\* C10: when tx-write-contract and tx-query-lifecycle both succeed in one
\* call, the query's output hash is the hash tx-write-contract reported.
C10_HashRoundTrip ==
  \A r \in Runners :
    (Succeeded(r, TxWriteContract) /\ Succeeded(r, TxQueryLifecycle)) =>
      results[r][TxQueryLifecycle].output.hash
        = results[r][TxWriteContract].output.hash

\* Both sending scenarios succeeded with different hashes, then the query.
C10_Witness ==
  \E r \in Runners :
    /\ Succeeded(r, TxSendNative)
    /\ Succeeded(r, TxWriteContract)
    /\ Succeeded(r, TxQueryLifecycle)
    /\ results[r][TxSendNative].output.hash # results[r][TxWriteContract].output.hash
    /\ results[r][TxQueryLifecycle].output.hash = broadcast[r].contract

C12_RunAllNeverRejects ==
  \A r \in Runners : runnerPc[r] # "rejected"

\* C13: whatever goes wrong while the ethers runner runs, once main has
\* ended the viem runner was started after it and the report carries the
\* six viem rows.
C13_ViemRunsAfterEthers ==
  (runnerPc["ethers"] # "idle" /\ mainPc \in {"done", "exited"}) =>
    /\ runnerPc["viem"] = "returned"
    /\ report.written
    /\ Len(report.viem.rows) = 6

\* What the viem runner has done so far: a scenario started or invoked, a
\* request issued, a transaction handed to the node.
ViemActive ==
  \/ runnerPc["viem"] # "idle"
  \/ \E k \in Scenarios :
       \/ taskPc["viem"][k] # "idle"
       \/ invoked["viem"][k] > 0
       \/ rpcCount["viem"][k] > 0
  \/ broadcast["viem"] # EmptyObject

\* C14: the runners run one after the other: the viem runner has issued no
\* request and sent no transaction unless the ethers runner has returned
\* all six results, and the two are never running at the same time.
C14_RunnersSequential ==
  /\ ViemActive =>
       /\ runnerPc["ethers"] = "returned"
       /\ Len(results["ethers"]) = 6
       /\ \A k \in Scenarios : Settled("ethers", k)
  /\ ~(runnerPc["ethers"] = "running" /\ runnerPc["viem"] = "running")

\* The viem runner has a transaction in flight after the ethers runner
\* returned a list in which a scenario took time.
C14_Witness ==
  /\ runnerPc["ethers"] = "returned"
  /\ runnerPc["viem"] = "running"
  /\ Has(broadcast["viem"], "native")
  /\ taskPc["viem"][TxSendNative] = "waiting"
  /\ \E k \in Scenarios : results["ethers"][k].durationMs > 0

\* C15: the hash bookkeeping belongs to one runAll invocation: the hashes
\* it holds and the hash tx-query-lifecycle asks about were sent by this
\* invocation of this runner, and an invocation whose two transaction
\* scenarios failed reports the missing hash, whatever earlier invocations
\* or the other runner recorded.
C15_HashesLocal ==
  \A r \in Runners :
    /\ RecordedIn(txHashes[r]) \subseteq RecordedIn(broadcast[r])
    /\ queried[r] \subseteq RecordedIn(broadcast[r])
    /\ (Failed(r, TxSendNative) /\ Failed(r, TxWriteContract)
          /\ HasResult(r, TxQueryLifecycle)) =>
         /\ queried[r] = {}
         /\ results[r][TxQueryLifecycle].success = FALSE
         /\ results[r][TxQueryLifecycle].error
              = "No transaction hash found from previous steps"

\* A runner is run again after it and the other runner recorded hashes;
\* this time both of its transaction scenarios fail and the query reports
\* the missing hash.
C15_Witness ==
  \E r, o \in Runners :
    /\ o # r
    /\ harness.earlier[r] # {}
    /\ RecordedIn(txHashes[o]) # {}
    /\ harness.earlier[r] \cup RecordedIn(txHashes[o]) \subseteq Hashes
    /\ Failed(r, TxSendNative) /\ Failed(r, TxWriteContract)
    /\ Failed(r, TxQueryLifecycle)

\* Decimal text of the small numbers a report of these runs shows.
ReportText(n) ==
  CASE n = 0 -> "0" [] n = 1 -> "1" [] n = 2 -> "2" [] n = 3 -> "3" [] n = 4 -> "4"
    [] n = 5 -> "5" [] n = 6 -> "6" [] n = 7 -> "7" [] n = 8 -> "8" [] n = 9 -> "9"

\* C16: from two lists of six results with matching ids, the comparison
\* table has six rows in the order of the ethers list, each showing the
\* two durations; the winner is 'tie' iff they are equal, 'ethers' iff the
\* ethers duration is strictly smaller, 'viem' iff the viem one is.
C16_ComparisonRows ==
  report.written =>
    /\ Len(report.comparison) = 6
    /\ \A i \in 1..6 :
         LET row == report.comparison[i]
             eMs == results["ethers"][i].durationMs
             vMs == results["viem"][i].durationMs
         IN /\ results["viem"][i].id = results["ethers"][i].id
            /\ row[1] = results["ethers"][i].id
            /\ row[2] = ReportText(eMs)
            /\ row[3] = ReportText(vMs)
            /\ row[4] \in {"tie", "ethers", "viem"}
            /\ row[4] = "tie" <=> eMs = vMs
            /\ row[4] = "ethers" <=> eMs < vMs
            /\ row[4] = "viem" <=> vMs < eMs

\* A written table with a row the viem runner wins next to a tie.
C16_Witness ==
  /\ report.written
  /\ report.comparison[TxSendNative]
       = << "tx-send-native", "1", "0", "viem" >>
  /\ report.comparison[ChainInfo] = << "chain-info", "0", "0", "tie" >>

\* C17: the summary of a runner's list has passed + failed = number of
\* results, passed = number of results with success = true, and a total
\* duration that is the sum of every result's duration, failed ones too.
C17_Summary ==
  report.written =>
    \A r \in Runners :
      LET list == results[r]
          passed == Cardinality({i \in 1..Len(list) : list[i].success})
          failed == Cardinality({i \in 1..Len(list) : ~list[i].success})
          total == list[1].durationMs + list[2].durationMs + list[3].durationMs
                   + list[4].durationMs + list[5].durationMs + list[6].durationMs
      IN /\ passed + failed = Len(list)
         /\ report[r].passed = "- passed: " \o ReportText(passed)
         /\ report[r].failed = "- failed: " \o ReportText(Len(list) - passed)
         /\ report[r].total = "- total duration: " \o ReportText(total) \o "ms"

\* A section whose only time was spent in a scenario that failed.
C17_Witness ==
  /\ report.written
  /\ Failed("ethers", ContractRead)
  /\ results["ethers"][ContractRead].durationMs = 1
  /\ report.ethers.passed = "- passed: 5"
  /\ report.ethers.failed = "- failed: 1"
  /\ report.ethers.total = "- total duration: 1ms"

\* C18: a runner section has one table row per result, in result order;
\* the row says PASS and shows the serialised output iff the result
\* succeeded, and says FAIL and shows the error text otherwise.
C18_SectionRows ==
  report.written =>
    \A r \in Runners :
      /\ Len(report[r].rows) = Len(results[r])
      /\ \A i \in 1..Len(results[r]) :
           LET row == report[r].rows[i]
               res == results[r][i]
           IN /\ row[1] = res.id
              /\ row[2] \in {"PASS", "FAIL"}
              /\ row[2] = "PASS" <=> res.success
              /\ row[3] = ReportText(res.durationMs)
              /\ res.success => row[4] = [json |-> res.output]
              /\ ~res.success => row[4] = res.error

\* A section with a PASS row carrying fields and a FAIL row carrying the
\* error text.
C18_Witness ==
  /\ report.written
  /\ report.viem.rows[ContractRead] = << "contract-read", "FAIL", "0", "request failed" >>
  /\ report.viem.rows[ChainInfo][2] = "PASS"
  /\ report.viem.rows[ChainInfo][4].json.chainId = FoundryChainId

\* C19: when the deployment record is missing, or RPC_URL, PRIVATE_KEY or
\* TO_ADDRESS is unset or empty, the run aborts: no runner and no scenario
\* is ever started, no report is written, the only steps left are the
\* failing load and the catch, and the run ends with the error logged and
\* exit code 1.
C19_AbortsBeforeAnyScenario ==
  (~env.deployment \/ env.RPC_URL = "" \/ env.PRIVATE_KEY = "" \/ env.TO_ADDRESS = "") =>
    /\ mainPc \in {"loadContext", "rejected", "exited"}
    /\ \A r \in Runners :
         /\ runnerPc[r] = "idle"
         /\ \A k \in Scenarios :
              taskPc[r][k] = "idle" /\ invoked[r][k] = 0 /\ rpcCount[r][k] = 0
    /\ reportWrites = 0 /\ ~report.written
    /\ mainPc = "loadContext" => ENABLED LoadContext /\ logged = << >>
    /\ mainPc = "rejected" => ENABLED MainCatch /\ logged = << >>
    /\ mainPc = "exited" =>
         /\ exitCode = 1
         /\ Len(logged) = 1
         /\ logged[1].isError
         /\ logged[1].message =
              IF ~env.deployment THEN "Missing contracts/deployments/local.json."
              ELSE IF env.RPC_URL = "" THEN "Missing env var: RPC_URL"
              ELSE IF env.PRIVATE_KEY = "" THEN "Missing env var: PRIVATE_KEY"
              ELSE "Missing env var: TO_ADDRESS"
    /\ mainPc # "exited" => exitCode = -1

\* The deployment record and RPC_URL are there, the key and the address
\* are not: the run has ended on the first missing variable.
C19_Witness ==
  /\ env.deployment /\ env.RPC_URL # ""
  /\ env.PRIVATE_KEY = "" /\ env.TO_ADDRESS = ""
  /\ mainPc = "exited"
  /\ exitCode = 1
  /\ logged = << MkError("Missing env var: PRIVATE_KEY") >>
  /\ reportWrites = 0

\* An invocation of chain-info whose requests were answered succeeded with
\* the node's chain id and a block number that is a number from 0 up to
\* the node's height; no invocation makes runAll reject.
C20_Answered ==
  \A r \in Runners :
    /\ runnerPc[r] # "rejected"
    /\ (Settled(r, ChainInfo) /\ settledAs[r][ChainInfo].kind = "fulfilled") =>
         /\ results[r][ChainInfo].success
         /\ ~Has(results[r][ChainInfo], "error")
         /\ results[r][ChainInfo].output.chainId = FoundryChainId
         /\ results[r][ChainInfo].output.blockNumber \in 0..blockNumber

\* A step of chain-info (its call, or its return) leaves the chain as it is.
C20_ReadOnly ==
  (\E r \in Runners : taskPc'[r][ChainInfo] # taskPc[r][ChainInfo]) =>
    UNCHANGED << blockNumber, txs, count >>

\* C20: against a fixed context whose node answers, chain-info can be
\* invoked any number of times: it never throws, each invocation returns
\* success with a numeric chainId and a numeric blockNumber >= 0, and no
\* invocation changes on-chain state.
C20_ChainInfoRepeatable == [] C20_Answered /\ [][C20_ReadOnly]_vars

\* The third invocation of the same runner on the same context: chain-info
\* succeeded again, on a chain the earlier invocations' transactions grew.
C20_Witness ==
  \E r, o \in Runners :
    /\ o # r
    /\ runnerPc[o] = "idle"
    /\ harness.calls = 3
    /\ harness.earlier[r] # {}
    /\ Succeeded(r, ChainInfo)
    /\ results[r][ChainInfo].output.chainId = FoundryChainId
    /\ results[r][ChainInfo].output.blockNumber >= 3

\* C21: the scenarios mean the same in both runners: whenever both have a
\* successful result for a scenario, the two outputs carry the same set of
\* fields, and for tx-query-lifecycle these include the two existence
\* flags, the status and the confirmation count.
C21_SameOutputFields ==
  \A k \in Scenarios :
    (Succeeded("ethers", k) /\ Succeeded("viem", k)) =>
      /\ DOMAIN results["viem"][k].output = DOMAIN results["ethers"][k].output
      /\ k = TxQueryLifecycle =>
           {"hasTransaction", "hasReceipt", "status", "confirmations"}
             \subseteq DOMAIN results["viem"][k].output

\* C22: tx-send-native and tx-write-contract succeed only after inclusion:
\* a successful result of either reports the hash this task broadcast, the
\* node holds a receipt for it, and the output carries the status and the
\* block number of that receipt.
C22_SuccessAfterInclusion ==
  \A r \in Runners, k \in {TxSendNative, TxWriteContract} :
    Succeeded(r, k) =>
      LET out == results[r][k].output IN
        /\ Has(broadcast[r], HashField(k))
        /\ out.hash = broadcast[r][HashField(k)]
        /\ Included(out.hash)
        /\ ~GetTransactionReceipt(out.hash).null
        /\ out.blockNumber = txs[out.hash].blockNumber
        /\ out.blockNumber >= 2
        /\ IF r = "ethers"
             THEN out.status = txs[out.hash].status
             ELSE out.status = "success" <=> txs[out.hash].status = 1

\* Both sending scenarios of the viem runner returned success, one for a
\* transaction that was included and reverted.
C22_Witness ==
  /\ Succeeded("viem", TxSendNative)
  /\ results["viem"][TxSendNative].output.status = "success"
  /\ Succeeded("viem", TxWriteContract)
  /\ results["viem"][TxWriteContract].output.status = "reverted"
  /\ results["viem"][TxWriteContract].output.blockNumber
       > results["viem"][TxSendNative].output.blockNumber

\* C23: the report is written at most once, by the run that reaches its
\* end, and only after both runners returned all their results: while a
\* runner has not returned or a scenario is in flight nothing is written.
C23_ReportWrittenOnce ==
  /\ reportWrites \in {0, 1}
  /\ reportWrites = 1 <=> mainPc = "done"
  /\ report.written <=> reportWrites = 1
  /\ reportWrites = 1 =>
       \A r \in Runners :
         /\ runnerPc[r] = "returned"
         /\ Len(results[r]) = 6
         /\ \A k \in Scenarios : Settled(r, k)
         /\ Len(report[r].rows) = 6
  /\ (\E r \in Runners : runnerPc[r] # "returned"
        \/ \E k \in Scenarios : InFlight(r, k)) => reportWrites = 0

\* The run has ended with its one write, after runs that took time and in
\* which a scenario failed.
C23_Witness ==
  /\ mainPc = "done"
  /\ reportWrites = 1
  /\ \A r \in Runners : runnerPc[r] = "returned"
  /\ \E r \in Runners, k \in Scenarios : results[r][k].durationMs > 0
  /\ \E r \in Runners, k \in Scenarios : Failed(r, k)

\* C24: the durationMs of every result, of a success or of a failure, is a
\* non-negative integer: the clock reading when the task settled minus the
\* reading taken just before the task was started.
C24_DurationNonNegative ==
  exec.pc = "returned" =>
    /\ exec.result.durationMs = exec.settledAt - exec.start
    /\ exec.result.durationMs \in Nat

\* C25: within one runAll the bookkeeping entry of tx-send-native (of
\* tx-write-contract) is set iff that scenario's result is a success; a
\* scenario that failed, also after its transaction was broadcast, left no
\* entry, and tx-query-lifecycle never asks about its hash.
C25_EntryIffSuccess ==
  \A r \in Runners, k \in {TxSendNative, TxWriteContract} :
    /\ Has(txHashes[r], HashField(k)) <=> Succeeded(r, k)
    /\ Has(txHashes[r], HashField(k)) =>
         txHashes[r][HashField(k)] = results[r][k].output.hash
    /\ Failed(r, k) =>
         /\ ~Has(txHashes[r], HashField(k))
         /\ Has(broadcast[r], HashField(k)) =>
              broadcast[r][HashField(k)] \notin queried[r]

\* tx-write-contract failed after its transaction had reached the node;
\* the query then asked about the hash of tx-send-native, which succeeded.
C25_Witness ==
  \E r \in Runners :
    /\ Succeeded(r, TxSendNative)
    /\ Failed(r, TxWriteContract)
    /\ Has(broadcast[r], "contract")
    /\ broadcast[r]["contract"] \in Hashes
    /\ DOMAIN txHashes[r] = {"native"}
    /\ Succeeded(r, TxQueryLifecycle)
    /\ queried[r] = {broadcast[r]["native"]}

\* Number written as the text of a reported count.
CountValue(text) ==
  CASE text = "0" -> 0 [] text = "1" -> 1 [] text = "2" -> 2 [] text = "3" -> 3
    [] text = "4" -> 4 [] text = "5" -> 5 [] text = "6" -> 6 [] text = "7" -> 7

\* When the ethers runner's increment succeeded, the count the viem runner
\* reads is the count the ethers runner read plus one.
C26_ViemSeesIncrement ==
  (Succeeded("ethers", ContractRead) /\ Succeeded("ethers", TxWriteContract)
     /\ Succeeded("viem", ContractRead)) =>
    CountValue(results["viem"][ContractRead].output.count)
      = CountValue(results["ethers"][ContractRead].output.count) + 1

\* A contract-read that returns reports the counter as it is on chain at
\* that moment, and the runner has not sent its own increment yet.
C26_ReadsBeforeOwnIncrement ==
  \A r \in Runners :
    (taskPc[r][ContractRead] = "called" /\ taskPc'[r][ContractRead] = "settled"
       /\ settledAs'[r][ContractRead].kind = "fulfilled") =>
      /\ CountValue(results'[r][ContractRead].output.count) = count
      /\ ~Has(broadcast[r], "contract")
      /\ taskPc[r][TxWriteContract] = "idle"

\* C26: the runners see and change the same counter one after the other:
\* with a successful increment by the ethers runner and no other writer,
\* the viem runner's contract-read reports the ethers runner's count plus
\* one, and each runner's contract-read reports the value before that
\* runner's own increment.
C26_SharedCounter == [] C26_ViemSeesIncrement /\ [][C26_ReadsBeforeOwnIncrement]_vars

\* Both runners read and incremented: the reads are 0 and 1, the counter
\* ends at 2.
C26_Witness ==
  /\ Succeeded("ethers", ContractRead) /\ Succeeded("ethers", TxWriteContract)
  /\ Succeeded("viem", ContractRead) /\ Succeeded("viem", TxWriteContract)
  /\ results["ethers"][ContractRead].output.count = "0"
  /\ results["viem"][ContractRead].output.count = "1"
  /\ results["viem"][TxWriteContract].output.status = "success"
  /\ count = 2

\* C27: a tx-query-lifecycle that succeeds reports at least one
\* confirmation: it queries a hash whose scenario waited for inclusion, so
\* the transaction is included and the block number is not below its block.
C27_AtLeastOneConfirmation ==
  \A r \in Runners :
    Succeeded(r, TxQueryLifecycle) =>
      /\ Included(results[r][TxQueryLifecycle].output.hash)
      /\ results[r][TxQueryLifecycle].output.confirmations >= 1

\* C28: a scenario id of the ethers list that has no result in the viem
\* list gets a row with viem duration 0: viem is named the winner when the
\* ethers duration is positive, 'tie' when it is 0; an id that only the
\* viem list holds gets no row.
C28_MissingViemResult ==
  mainPc = "rendered" =>
    LET e == results["ethers"]
        v == results["viem"]
        table == report.comparison
    IN /\ Len(table) = Len(e)
       /\ \A i \in 1..Len(e) :
            /\ table[i][1] = e[i].id
            /\ \E j \in 1..i :
                 /\ e[j].id = e[i].id
                 /\ \A h \in 1..(j - 1) : e[h].id # e[i].id
                 /\ table[i][2] = ReportText(e[j].durationMs)
                 /\ (\A m \in 1..Len(v) : v[m].id # e[i].id) =>
                      /\ table[i][3] = "0"
                      /\ e[j].durationMs > 0 => table[i][4] = "viem"
                      /\ e[j].durationMs = 0 => table[i][4] = "tie"
       /\ \A m \in 1..Len(v) :
            (\A i \in 1..Len(e) : e[i].id # v[m].id) =>
              \A i \in 1..Len(table) : table[i][1] # v[m].id

\* The ethers list holds chain-info only (1 ms), the viem list holds
\* account-state only: one row, won by viem at 0 ms, and no row for
\* account-state.
C28_Witness ==
  /\ mainPc = "rendered"
  /\ Len(results["ethers"]) = 1
  /\ results["ethers"][1].id = "chain-info"
  /\ results["ethers"][1].durationMs = 1
  /\ Len(results["viem"]) = 1
  /\ results["viem"][1].id = "account-state"
  /\ report.comparison = << << "chain-info", "1", "0", "viem" >> >>

\* Two lists with the same ids and durations, entry by entry.
SameTiming(a, b) ==
  /\ Len(a) = Len(b)
  /\ \A i \in 1..Len(a) : a[i].id = b[i].id /\ a[i].durationMs = b[i].durationMs

\* C29: the comparison table depends on ids and durations only: any two
\* pairs of lists that agree on them, whatever their success flags, outputs
\* and errors, give the same table, so a quick failure is named faster
\* than a slow success.
C29_DurationsOnly ==
  mainPc = "rendered" =>
    /\ \A e2 \in {l \in RenderLists : SameTiming(l, results["ethers"])},
          v2 \in {l \in RenderLists : SameTiming(l, results["viem"])} :
         RenderComparison(e2, v2) = report.comparison
    /\ (/\ Len(results["ethers"]) = 1 /\ Len(results["viem"]) = 1
        /\ results["viem"][1].id = results["ethers"][1].id
        /\ results["ethers"][1].durationMs < results["viem"][1].durationMs) =>
         report.comparison[1][4] = "ethers"

\* The ethers chain-info failed at once, the viem chain-info succeeded
\* after 1 ms: the row names ethers.
C29_Witness ==
  /\ mainPc = "rendered"
  /\ Len(results["ethers"]) = 1 /\ Len(results["viem"]) = 1
  /\ results["ethers"][1].id = "chain-info" /\ results["viem"][1].id = "chain-info"
  /\ ~results["ethers"][1].success /\ results["ethers"][1].durationMs = 0
  /\ results["viem"][1].success /\ results["viem"][1].durationMs = 1
  /\ report.comparison = << << "chain-info", "0", "1", "ethers" >> >>

\* The run with the scheduling main has: once both runners have returned
\* nothing is awaited any more, so the write is taken.
SpecLive == Spec /\ WF_vars(WriteReport)

\* Number of failed results in the two lists.
FailedCount == Cardinality({rk \in Runners \X Scenarios : Failed(rk[1], rk[2])})

BothReturned == context.loaded /\ \A r \in Runners : runnerPc[r] = "returned"

\* C30 (state part): after both runners returned the exit code is never
\* non-zero and nothing is printed as an error; the finished run has exit
\* code 0 and its report, where each failed result is a FAIL row and is
\* counted in the failed line, and every other result is a PASS row.
C30_FailuresOnlyInReport ==
  BothReturned =>
    /\ mainPc \in {"report", "done"}
    /\ exitCode \in {-1, 0}
    /\ logged = << >>
    /\ mainPc = "done" =>
         /\ exitCode = 0
         /\ reportWrites = 1
         /\ report.written
         /\ \A r \in Runners :
              /\ \A k \in Scenarios :
                   report[r].rows[k][2] = IF Failed(r, k) THEN "FAIL" ELSE "PASS"
              /\ report[r].failed = "- failed: " \o ReportText(
                   Cardinality({k \in Scenarios : Failed(r, k)}))

\* C30: once the context has loaded and both runners have returned, the
\* run always writes the report and ends with exit code 0, however many
\* scenarios failed; the failures show only as FAIL rows and in the failed
\* count.
C30_AlwaysWritesReport ==
  /\ [] C30_FailuresOnlyInReport
  /\ BothReturned ~> (mainPc = "done" /\ exitCode = 0 /\ reportWrites = 1)

\* The run has ended normally with its report although scenarios of both
\* runners failed.
C30_Witness ==
  /\ mainPc = "done"
  /\ exitCode = 0
  /\ report.written
  /\ FailedCount >= 4
  /\ \A r \in Runners : \E k \in Scenarios : Failed(r, k)
  /\ \A r \in Runners : report[r].rows[TxSendNative][2] = "FAIL"

====
